---- MODULE Spec2Model ----
(***************************************************************************)
(* The AI-analysis endpoints of jobsforce-backend: the four task handlers  *)
(* of controllers/aiController.ts, the AIAnalysis collection they cache    *)
(* their results in, the authenticate middleware the router puts in front  *)
(* of them, and the OpenAIService methods that turn the model's reply      *)
(* into the structured result a handler stores and returns.                *)
(*                                                                         *)
(* A request is handled in up to three steps separated by the handler's    *)
(* awaits: (1) middleware, validation and the findOne lookup, answered at  *)
(* once on a hit; (2) the service call returning its result; (3) the save  *)
(* and the response.  Requests in different slots interleave freely.       *)
(***************************************************************************)
EXTENDS Integers, Sequences, FiniteSets, TLC

\* ------------------------------------------------------------------------
\* Bounds
\* ------------------------------------------------------------------------
\* number of requests received in one behaviour
MaxRequests == 3

\* the number of saves the database rejects in a run
MaxSaveFailures == 1

\* requests that can be in flight at the same time
Slots == {1, 2}

\* ------------------------------------------------------------------------
\* JSON values: what JSON.parse can return and what a request body holds
\* ------------------------------------------------------------------------
\* a missing request field, an undefined property, a null document field
None == "null"

JUndef == [t |-> "undefined"]
JNull == [t |-> "null"]
JStr(s) == [t |-> "string", v |-> s]
JNum(n) == [t |-> "number", v |-> n]
JBool(b) == [t |-> "boolean", v |-> b]
JArr(items) == [t |-> "array", v |-> items]
JObj(fields) == [t |-> "object", v |-> fields]
\* a Python-like list comprehension where an array literal should be,
\* e.g. [i for i in range(10)]: not JSON
JCompr == [t |-> "comprehension"]
\* a call range(10) where a value should be: not JSON
JRange == [t |-> "range"]
\* a comprehension with a ] before its for or with a comprehension inside,
\* e.g. [x[0] for x in range(3)]: not JSON
JComprNested == [t |-> "nested comprehension"]

\* JavaScript truthiness of a parsed value
Truthy(j) ==
  CASE j.t = "undefined" -> FALSE
    [] j.t = "null" -> FALSE
    [] j.t = "string" -> j.v # ""
    [] j.t = "number" -> j.v # 0
    [] j.t = "boolean" -> j.v
    [] OTHER -> TRUE

\* a || d
OrElse(j, d) == IF Truthy(j) THEN j ELSE d

\* property access data.name on a parsed value that is not null: a property
\* the value does not have, or any property of a number or an array, is
\* undefined
Prop(j, name) ==
  IF j.t = "object" /\ name \in DOMAIN j.v THEN j.v[name] ELSE JUndef

\* ------------------------------------------------------------------------
\* The model's reply: services/openaiService (OpenAIService)
\* ------------------------------------------------------------------------
\* What openai.chat.completions.create does for one call:
\*   [kind |-> "error"]   the call rejects (transport error, non-2xx)
\*   [kind |-> "empty"]   a reply whose first choice has no content
\*   [kind |-> "text", fence, syntax, value]   the content: fence is how it
\*     is wrapped ("none", "json" for ```json .. ```, "bare" for ``` .. ```),
\*     syntax "json" when the text inside is a JSON document denoting value
\*     (but for a JCompr in it, which no JSON parser accepts), "prose" when
\*     it is not JSON at all
ReplyError == [kind |-> "error"]
ReplyEmpty == [kind |-> "empty"]
ReplyText(fence, syntax, value) ==
  [kind |-> "text", fence |-> fence, syntax |-> syntax, value |-> value]

\* response.choices[0]?.message?.content || "{}"
ContentOf(reply) ==
  IF reply.kind = "text" THEN reply ELSE ReplyText("none", "json", JObj(<<>>))

\* sanitizeJsonResponse: drops a leading ``` or ```json line and a trailing
\* ```, then trims
sanitizeJsonResponse(content) ==
  IF content.fence \in {"json", "bare"}
    THEN [content EXCEPT !.fence = "none"]
    ELSE content

\* the text holds an expression where a JSON value should be
HasCompr(content) ==
  /\ content.value.t = "object"
  /\ \E k \in DOMAIN content.value.v :
       content.value.v[k] \in {JCompr, JRange, JComprNested}

\* a fault of the cleaning: nothing is replaced
CleanComprehensions_Nothing(content) == content

\* the text of an array element up to its first ] holds no "for": the
\* element is an object whose first field, input, is an array of literals
InputIsArray(item) ==
  item.t = "object" /\ "input" \in DOMAIN item.v /\ item.v.input.t = "array"

\* the text of an array element holds "for": it has the key
\* performanceTest the prompt asks for
MentionsFor(item) == item.t = "object" /\ "performanceTest" \in DOMAIN item.v

\* a JSON array whose text matches /\[[^\]]*for[^\]]*\]/ as a whole: no ]
\* before its own, and a "for" somewhere in it
WipedArray(j) ==
  /\ j.t = "array"
  /\ \A i \in 1..Len(j.v) : ~InputIsArray(j.v[i])
  /\ \E i \in 1..Len(j.v) : MentionsFor(j.v[i])

\* .replace(/\[[^\]]*for[^\]]*\]/g, '[]').replace(/range\(\d+\)/g, '[]'),
\* applied to the text before it is parsed: a comprehension with no ]
\* inside and a call of range become [], and so does a JSON array with a
\* "for" in its text and no ] before its own; of a comprehension with a ]
\* inside only a part is replaced, and what is left is no JSON either.
\* Arrays whose elements each start with an array of literals are left as
\* they are.
CleanComprehensions(content) ==
  IF content.value.t = "object"
    THEN [content EXCEPT !.value = JObj([k \in DOMAIN content.value.v |->
            IF content.value.v[k] \in {JCompr, JRange}
                 \/ WipedArray(content.value.v[k])
              THEN JArr(<<>>)
              ELSE content.value.v[k]])]
    ELSE content

\* JSON.parse throws on this text
ParseThrows(content) ==
  \/ content.fence # "none"
  \/ content.syntax # "json"
  \/ HasCompr(content)

\* the service's result when its catch block runs
AnalyzeFailure ==
  [result |-> [approachIdentified |-> JStr("Analysis failed"),
               optimizationTips |-> JArr(<<JStr("Could not analyze code")>>),
               edgeCasesFeedback |-> JArr(<<JStr("Analysis unavailable")>>),
               alternativeApproaches |-> JArr(<<>>)],
   analysisText |-> JStr("Error performing code analysis"),
   error |-> TRUE]

ComplexityFailure ==
  [result |-> [timeComplexity |-> JObj([bestCase |-> JStr("Analysis failed"),
                                        averageCase |-> JStr("Analysis failed"),
                                        worstCase |-> JStr("Analysis failed")]),
               spaceComplexity |-> JStr("Analysis failed"),
               criticalOperations |-> JArr(<<>>),
               comparisonToOptimal |->
                 JStr("Could not compare to optimal solution")],
   analysisText |-> JStr("Error performing complexity analysis"),
   error |-> TRUE]

OptimizeFailure ==
  [result |-> [optimizedCode |-> JStr("Optimization failed"),
               improvements |-> JArr(<<JObj(
                 [description |-> JStr("Could not optimize code"),
                  complexityBefore |-> JStr("Unknown"),
                  complexityAfter |-> JStr("Unknown"),
                  algorithmicChange |-> JStr("None")])>>)],
   analysisText |-> JStr("Error performing code optimization"),
   error |-> TRUE]

TestCasesFailure ==
  [result |-> JArr(<<JObj([input |-> JObj([sample |-> JStr("input")]),
                           expectedOutput |-> JStr("sample output"),
                           purpose |-> JStr("Test case generation failed"),
                           difficulty |-> JStr("easy"),
                           performanceTest |-> FALSE])>>),
   analysisText |-> JStr("Error generating test cases"),
   error |-> TRUE]

\* OpenAIService.analyzeCode: the try block, or the catch block when the
\* call rejects, JSON.parse throws, or a property of null is read
analyzeCode(reply) ==
  LET content == sanitizeJsonResponse(ContentOf(reply))
      analysisData == content.value
  IN IF reply.kind = "error" \/ ParseThrows(content) \/ analysisData.t = "null"
       THEN AnalyzeFailure
       ELSE [result |->
               [approachIdentified |->
                  OrElse(Prop(analysisData, "approachIdentified"),
                         JStr("Unknown approach")),
                optimizationTips |->
                  OrElse(Prop(analysisData, "optimizationTips"), JArr(<<>>)),
                edgeCasesFeedback |->
                  OrElse(Prop(analysisData, "edgeCasesFeedback"), JArr(<<>>)),
                alternativeApproaches |->
                  OrElse(Prop(analysisData, "alternativeApproaches"),
                         JArr(<<>>))],
             analysisText |->
               OrElse(Prop(analysisData, "detailedAnalysis"),
                      JStr("No detailed analysis available")),
             error |-> FALSE]

\* OpenAIService.analyzeComplexity
analyzeComplexity(reply) ==
  LET content == sanitizeJsonResponse(ContentOf(reply))
      complexityData == content.value
  IN IF reply.kind = "error" \/ ParseThrows(content)
          \/ complexityData.t = "null"
       THEN ComplexityFailure
       ELSE [result |->
               [timeComplexity |->
                  OrElse(Prop(complexityData, "timeComplexity"),
                         JObj([bestCase |-> JStr("Unknown"),
                               averageCase |-> JStr("Unknown"),
                               worstCase |-> JStr("Unknown")])),
                spaceComplexity |->
                  OrElse(Prop(complexityData, "spaceComplexity"),
                         JStr("Unknown")),
                criticalOperations |->
                  OrElse(Prop(complexityData, "criticalOperations"),
                         JArr(<<>>)),
                comparisonToOptimal |->
                  OrElse(Prop(complexityData, "comparisonToOptimal"),
                         JStr("Unknown"))],
             analysisText |->
               OrElse(Prop(complexityData, "detailedAnalysis"),
                      JStr("No detailed analysis available")),
             error |-> FALSE]

\* OpenAIService.optimizeCode
optimizeCode(reply) ==
  LET content == sanitizeJsonResponse(ContentOf(reply))
      optimizationData == content.value
  IN IF reply.kind = "error" \/ ParseThrows(content)
          \/ optimizationData.t = "null"
       THEN OptimizeFailure
       ELSE [result |->
               [optimizedCode |->
                  OrElse(Prop(optimizationData, "optimizedCode"),
                         JStr("No optimized code available")),
                improvements |->
                  OrElse(Prop(optimizationData, "improvements"), JArr(<<>>))],
             analysisText |->
               OrElse(Prop(optimizationData, "explanationText"),
                      JStr("No optimization explanation available")),
             error |-> FALSE]

\* OpenAIService.generateTestCases: the inner try cleans and parses the
\* content and replaces a truthy testCases that is no array by []; its
\* catch (JSON.parse threw, or testCases was read from null) substitutes a
\* fixed object; only a rejected call reaches the outer catch
generateTestCasesService(reply) ==
  LET content == CleanComprehensions(sanitizeJsonResponse(ContentOf(reply)))
      parsed == content.value
      innerThrows == ParseThrows(content) \/ parsed.t = "null"
      given == Prop(parsed, "testCases")
      testCaseData ==
        IF innerThrows
          THEN JObj([testCases |-> JArr(<<>>),
                     explanationText |->
                       JStr("Failed to parse response as JSON")])
        ELSE IF Truthy(given) /\ given.t # "array" /\ parsed.t = "object"
          THEN JObj([k \in DOMAIN parsed.v |->
                       IF k = "testCases" THEN JArr(<<>>) ELSE parsed.v[k]])
          ELSE parsed
  IN IF reply.kind = "error"
       THEN TestCasesFailure
       ELSE [result |-> OrElse(Prop(testCaseData, "testCases"), JArr(<<>>)),
             analysisText |->
               OrElse(Prop(testCaseData, "explanationText"),
                      JStr("No test case explanation available")),
             error |-> FALSE]

\* ------------------------------------------------------------------------
\* State
\* ------------------------------------------------------------------------
VARIABLES
  store,   \* the AIAnalysis collection, in insertion order; _id = index
  req,     \* per slot, the request being handled there, if any
  nreq,    \* requests received so far
  log,     \* history: the requests a handler answered after its guards,
           \* in the order of their answers
  rejected \* history: the last request turned away by the middleware or
           \* by a guard of its handler since a request last passed them

vars == <<store, req, nreq, log, rejected>>

\* the result slot a task reads and writes
SlotOf(task) ==
  CASE task = "analyze" -> "algorithmAnalysis"
    [] task = "complexity" -> "complexityAnalysis"
    [] task = "optimize" -> "optimizationSuggestions"
    [] task = "generateTests" -> "testCases"

\* a path of a document that was never set
Unset == JUndef

\* new AIAnalysis({...}): the fields the handler passes, the others unset
NewDocument(task, user, body, result) ==
  [userId |-> user,
   interviewId |-> IF body.interviewId \in {None, ""} THEN None
                                                       ELSE body.interviewId,
   questionId |-> IF body.questionId \in {None, "0"} THEN None
                                                      ELSE body.questionId,
   problemId |-> IF body.problemId \in {None, ""} THEN None
                                                   ELSE body.problemId,
   code |-> IF task = "generateTests" THEN "" ELSE body.code,
   language |-> IF task = "generateTests" THEN "none" ELSE body.language,
   analysisText |-> result.analysisText,
   algorithmAnalysis |-> IF task = "analyze" THEN result.result ELSE Unset,
   complexityAnalysis |-> IF task = "complexity" THEN result.result ELSE Unset,
   optimizationSuggestions |->
     IF task = "optimize" THEN result.result ELSE Unset,
   testCases |-> IF task = "generateTests" THEN result.result ELSE Unset]

\* a fault of the update: the document is written back whole, as the
\* handler would build it anew, and not path by path
UpdateDocument_WrittenWhole(doc, task, result) ==
  [f \in DOMAIN doc |->
     IF f = SlotOf(task) THEN result.result
     ELSE IF f = "analysisText" THEN result.analysisText
     ELSE IF f \in {"algorithmAnalysis", "complexityAnalysis",
                    "optimizationSuggestions", "testCases"} THEN Unset
     ELSE doc[f]]

\* a fault of the update: the explanation text of the record is left as
\* it is
UpdateDocument_TextKept(doc, task, result) ==
  [doc EXCEPT ![SlotOf(task)] = result.result]

\* existingAnalysis.set(slot, value); existingAnalysis.set('analysisText', ..)
\* followed by save(): the two modified paths are written to the stored
\* document with that _id
UpdateDocument(doc, task, result) ==
  [doc EXCEPT ![SlotOf(task)] = result.result,
              !.analysisText = result.analysisText]

\* ------------------------------------------------------------------------
\* The authenticate middleware
\* ------------------------------------------------------------------------
\* A credential is what the request carries in its Authorization header:
\* kind "valid" is a well-formed, verifiable token of an existing user
RejectedKinds ==
  {"no_header", "bad_format", "bad_signature", "no_id", "unknown_user",
   "lookup_error"}

\* a fault of authenticate: a user lookup that throws is passed on to the
\* handler with no user set
authenticate_LookupErrorPasses(cred) ==
  IF cred.kind \in {"valid", "lookup_error"}
    THEN [next |-> TRUE, status |-> 200, user |-> cred.user]
    ELSE [next |-> FALSE, status |-> 401, user |-> None]

\* authenticate: every path but the last answers 401 itself; the last sets
\* req.user and calls next()
authenticate(cred) ==
  IF cred.kind = "valid"
    THEN [next |-> TRUE, status |-> 200, user |-> cred.user]
    ELSE [next |-> FALSE, status |-> 401, user |-> None]

\* ------------------------------------------------------------------------
\* The handlers of aiController
\* ------------------------------------------------------------------------
\* !x for a string field of the body
Missing(x) == x \in {None, ""}

\* !questionId: the field is a number
MissingNum(x) == x \in {None, "0"}

\* a fault of the first guard: language is not looked at
RequiredMissing_LanguageUnchecked(task, body) ==
  CASE task \in {"analyze", "complexity"} -> Missing(body.code)
    [] task = "optimize" ->
         Missing(body.code) \/ Missing(body.problemStatement)
    [] task = "generateTests" ->
         Missing(body.problemStatement) \/ Missing(body.constraints)

\* the first guard of a handler: the fields the task requires
RequiredMissing(task, body) ==
  CASE task \in {"analyze", "complexity"} ->
         Missing(body.code) \/ Missing(body.language)
    [] task = "optimize" ->
         Missing(body.code) \/ Missing(body.language)
           \/ Missing(body.problemStatement)
    [] task = "generateTests" ->
         Missing(body.problemStatement) \/ Missing(body.constraints)

\* the second guard of optimizeSolution
FocusInvalid(task, body) ==
  task = "optimize" /\ body.optimizationFocus \notin {"time", "space"}

NoQuery == [none |-> TRUE]

\* a fault of the filter: code is left out of it
QueryOf_CodeLeftOut(task, user, body) ==
  IF ~Missing(body.interviewId) /\ ~MissingNum(body.questionId)
    THEN [userId |-> user, interviewId |-> body.interviewId,
          questionId |-> body.questionId]
  ELSE IF ~Missing(body.problemId)
    THEN [userId |-> user, problemId |-> body.problemId]
  ELSE NoQuery

\* a fault of the filter: code is in it for generateTests too
QueryOf_CodeInEveryFilter(task, user, body) ==
  IF ~Missing(body.interviewId) /\ ~MissingNum(body.questionId)
    THEN [userId |-> user, interviewId |-> body.interviewId,
          questionId |-> body.questionId, code |-> body.code]
  ELSE IF ~Missing(body.problemId)
    THEN [userId |-> user, problemId |-> body.problemId,
          code |-> body.code]
  ELSE NoQuery

\* a fault of the filter: the owner is left out of it
QueryOf_OwnerLeftOut(task, user, body) ==
  IF ~Missing(body.interviewId) /\ ~MissingNum(body.questionId)
    THEN IF task = "generateTests"
           THEN [interviewId |-> body.interviewId,
                 questionId |-> body.questionId]
           ELSE [interviewId |-> body.interviewId,
                 questionId |-> body.questionId, code |-> body.code]
  ELSE IF ~Missing(body.problemId)
    THEN IF task = "generateTests"
           THEN [problemId |-> body.problemId]
           ELSE [problemId |-> body.problemId, code |-> body.code]
  ELSE NoQuery

\* the filter handed to findOne: by interview question when both ids are
\* given, else by problem; code is part of it except for generateTests
QueryOf(task, user, body) ==
  IF ~Missing(body.interviewId) /\ ~MissingNum(body.questionId)
    THEN IF task = "generateTests"
           THEN [userId |-> user, interviewId |-> body.interviewId,
                 questionId |-> body.questionId]
           ELSE [userId |-> user, interviewId |-> body.interviewId,
                 questionId |-> body.questionId, code |-> body.code]
  ELSE IF ~Missing(body.problemId)
    THEN IF task = "generateTests"
           THEN [userId |-> user, problemId |-> body.problemId]
           ELSE [userId |-> user, problemId |-> body.problemId,
                 code |-> body.code]
  ELSE NoQuery

Matches(doc, query) == \A f \in DOMAIN query : doc[f] = query[f]

\* AIAnalysis.findOne(query): the _id of a document that matches, 0 for
\* null.  No sort is given, so which of several matching documents comes
\* back is the store's choice.
FindOne(query) ==
  LET found == {i \in 1..Len(store) : Matches(store[i], query)}
  IN IF query = NoQuery \/ found = {} THEN {0} ELSE found

\* a fault of the cached-result test: a handler copied from
\* analyzeSolution still tests algorithmAnalysis
CacheHit_SlotOfAnalyze(task, id) ==
  /\ id # 0
  /\ store[id].algorithmAnalysis # Unset

\* the cached-result test of a handler on the document found
CacheHit(task, id) ==
  /\ id # 0
  /\ IF task = "generateTests"
       THEN /\ store[id].testCases # Unset
            /\ Len(store[id].testCases.v) > 0
       ELSE store[id][SlotOf(task)] # Unset

NoData == [none |-> TRUE]

\* res.status(..).json(..): data holds the explanation text (analysisText,
\* optimizationText or testCasesText), the task's result and fromCache
Response(status, success, data) ==
  [status |-> status, success |-> success, data |-> data]

Data(text, result, fromCache) ==
  [text |-> text, result |-> result, fromCache |-> fromCache]

CachedResponse(task, id) ==
  Response(200, TRUE,
           Data(store[id].analysisText, store[id][SlotOf(task)], TRUE))

FreshResponse(result) ==
  Response(200, TRUE, Data(result.analysisText, result.result, FALSE))

\* ------------------------------------------------------------------------
\* Requests
\* ------------------------------------------------------------------------
NoResult == [none |-> TRUE]
NoResponse == [none |-> TRUE]
NoReply == [kind |-> "none"]

\* A request record holds the request (task, cred, user, body), where its
\* handler stands (pc), the handler's locals (existing: the _id findOne
\* returned, 0 for null; result: what the service returned), the response
\* sent, and what the request did: lookups and calls count its findOne and
\* model calls, wrote is the _id of the document it saved (0: none),
\* upstream tells how the model call went and reply what the model sent,
\* alone whether no other request was in flight at any time while this one
\* was handled.

Idle ==
  [pc |-> "idle", task |-> None, cred |-> None, user |-> None,
   body |-> NoData, existing |-> 0, result |-> NoResult,
   response |-> NoResponse, lookups |-> 0, calls |-> 0, wrote |-> 0,
   upstream |-> None, reply |-> NoReply, alone |-> TRUE]

InFlight(r) == req[r].pc \in {"model", "save"}

\* the slot a new request is handled in: the first one that is free
FreeSlot(r) == ~InFlight(r) /\ \A s \in Slots : s < r => InFlight(s)

\* a request arriving in slot r: the requests in flight are no longer alone
Arrive(r, rec) ==
  [s \in Slots |->
     IF s = r THEN rec
     ELSE IF InFlight(s) THEN [req[s] EXCEPT !.alone = FALSE]
     ELSE req[s]]

\* router.post(path, authenticate, handler) up to the handler's first
\* await that suspends on the model: the middleware, the guards, the
\* lookup, and the answer from the cache on a hit
Receive(r, task, cred, body) ==
  LET auth == authenticate(cred)
      query == QueryOf(task, auth.user, body)
      new == [Idle EXCEPT !.task = task, !.cred = cred.kind,
                          !.user = auth.user, !.body = body,
                          !.alone = \A s \in Slots \ {r} : ~InFlight(s)]
      reject(status) ==
        /\ rejected' = [new EXCEPT !.pc = "done",
                          !.response = Response(status, FALSE, NoData)]
        /\ UNCHANGED <<store, req, log>>
      accepted == rejected' = Idle
  IN /\ nreq < MaxRequests
     /\ FreeSlot(r)
     /\ nreq' = nreq + 1
     /\ IF ~auth.next THEN reject(auth.status)
        ELSE IF RequiredMissing(task, body) THEN reject(400)
        ELSE IF FocusInvalid(task, body) THEN reject(400)
        ELSE IF auth.user = None THEN reject(401)
        ELSE IF task = "generateTests" /\ query = NoQuery THEN reject(400)
        ELSE \E id \in FindOne(query) :
               LET looked == [new EXCEPT !.existing = id,
                                !.lookups = IF query = NoQuery THEN 0 ELSE 1]
               IN IF CacheHit(task, id)
                    THEN LET answered ==
                               [looked EXCEPT !.pc = "done",
                                  !.response = CachedResponse(task, id)]
                         IN /\ req' = Arrive(r, Idle)
                            /\ log' = Append(log, answered)
                            /\ accepted
                            /\ UNCHANGED store
                    ELSE /\ req' = Arrive(r, [looked EXCEPT !.pc = "model"])
                         /\ accepted
                         /\ UNCHANGED <<store, log>>

\* POST /api/ai/analyze-solution
analyzeSolution(r, cred, body) ==
  LET task == "analyze" IN Receive(r, task, cred, body)

\* POST /api/ai/complexity-analysis
complexityAnalysis(r, cred, body) ==
  LET task == "complexity" IN Receive(r, task, cred, body)

\* POST /api/ai/optimize-solution
optimizeSolution(r, cred, body) ==
  LET task == "optimize" IN Receive(r, task, cred, body)

\* POST /api/ai/generate-test-cases
generateTestCases(r, cred, body) ==
  LET task == "generateTests" IN Receive(r, task, cred, body)

\* the service method a handler awaits
ServiceResult(task, reply) ==
  CASE task = "analyze" -> analyzeCode(reply)
    [] task = "complexity" -> analyzeComplexity(reply)
    [] task = "optimize" -> optimizeCode(reply)
    [] task = "generateTests" -> generateTestCasesService(reply)

\* how the model call went: "unavailable" when the call itself failed,
\* "malformed" when the model replied with text that no parse the service
\* attempts accepts, "ok" otherwise
Upstream(task, reply) ==
  LET content == sanitizeJsonResponse(ContentOf(reply))
  IN IF reply.kind = "error" THEN "unavailable"
     ELSE IF task = "generateTests"
       THEN IF ParseThrows(CleanComprehensions(content)) THEN "malformed"
                                                         ELSE "ok"
     ELSE IF ParseThrows(content) THEN "malformed" ELSE "ok"

\* a fault of the service call: a call that failed is made once more
\* before the handler goes on
ModelReturn_RetriedOnce(r, reply) ==
  /\ req[r].pc = "model"
  /\ req' = [req EXCEPT
       ![r].pc = IF reply.kind = "error" /\ req[r].calls = 0 THEN "model"
                                                              ELSE "save",
       ![r].result = ServiceResult(req[r].task, reply),
       ![r].upstream = Upstream(req[r].task, reply),
       ![r].reply = reply,
       ![r].calls = @ + 1]
  /\ UNCHANGED <<store, nreq, log, rejected>>

\* the awaited service call returns: the handler destructures the result
\* and goes on to save it
ModelReturn(r, reply) ==
  /\ req[r].pc = "model"
  /\ req' = [req EXCEPT ![r].pc = "save",
                        ![r].result = ServiceResult(req[r].task, reply),
                        ![r].upstream = Upstream(req[r].task, reply),
                        ![r].reply = reply,
                        ![r].calls = @ + 1]
  /\ UNCHANGED <<store, nreq, log, rejected>>

\* a fault of the save: a record that exists is written anew from the
\* request, as if it had not been found
Saved_BuiltAnew(rq) ==
  IF rq.existing # 0
    THEN [store EXCEPT ![rq.existing] =
            NewDocument(rq.task, rq.user, rq.body, rq.result)]
    ELSE Append(store, NewDocument(rq.task, rq.user, rq.body, rq.result))

\* the document after the handler's save
Saved(rq) ==
  IF rq.existing # 0
    THEN [store EXCEPT ![rq.existing] =
            UpdateDocument(store[rq.existing], rq.task, rq.result)]
    ELSE Append(store, NewDocument(rq.task, rq.user, rq.body, rq.result))

\* the saves that have been rejected so far
SaveFailures ==
  Cardinality({i \in 1..Len(log) : log[i].response.status = 500})

\* a fault of the save step: the rejection of save() is swallowed and the
\* handler goes on to its 200 response
Save_RejectionSwallowed(r, ok) ==
  /\ req[r].pc = "save"
  /\ ok \/ SaveFailures < MaxSaveFailures
  /\ store' = IF ok THEN Saved(req[r]) ELSE store
  /\ req' = [req EXCEPT ![r] = Idle]
  /\ log' = Append(log,
       [req[r] EXCEPT !.pc = "done",
          !.wrote = IF ~ok THEN 0
                    ELSE IF req[r].existing # 0 THEN req[r].existing
                    ELSE Len(store) + 1,
          !.response = FreshResponse(req[r].result)])
  /\ UNCHANGED <<nreq, rejected>>

\* await save() and the response; a save that rejects is caught by the
\* handler's catch block, which answers 500
Save(r, ok) ==
  LET answered ==
        IF ok
          THEN [req[r] EXCEPT !.pc = "done",
                              !.wrote = IF req[r].existing # 0
                                          THEN req[r].existing
                                          ELSE Len(store) + 1,
                              !.response = FreshResponse(req[r].result)]
          ELSE [req[r] EXCEPT !.pc = "done",
                              !.response = Response(500, FALSE, NoData)]
  IN /\ req[r].pc = "save"
     /\ ok \/ SaveFailures < MaxSaveFailures
     /\ store' = IF ok THEN Saved(req[r]) ELSE store
     /\ req' = [req EXCEPT ![r] = Idle]
     /\ log' = Append(log, answered)
     /\ UNCHANGED <<nreq, rejected>>

Init ==
  /\ store = <<>>
  /\ req = [r \in Slots |-> Idle]
  /\ nreq = 0
  /\ log = <<>>
  /\ rejected = Idle

\* ------------------------------------------------------------------------
\* Inputs
\* ------------------------------------------------------------------------
Body(code, lang, statement, focus, constr, problem, interview, question) ==
  [code |-> code, language |-> lang, problemStatement |-> statement,
   optimizationFocus |-> focus, constraints |-> constr,
   problemId |-> problem, interviewId |-> interview, questionId |-> question]

Valid(u) == [kind |-> "valid", user |-> u]
Invalid(k) == [kind |-> k, user |-> None]

\* the scope selectors of well-formed requests: <<problemId, interviewId,
\* questionId>>
ProblemScope == <<"P1", None, None>>
InterviewScope == <<None, "I1", "7">>

Credentials == {Valid("U1")}

\* code and scope of the requests of Spec
Keys == {<<"A", ProblemScope>>, <<"B", ProblemScope>>}

\* code and scope of its requests for test cases
TestKeys ==
  {<<None, ProblemScope>>, <<None, InterviewScope>>, <<"A", InterviewScope>>}

CodeBodies ==
  {Body(k[1], "js", None, None, None, k[2][1], k[2][2], k[2][3]) : k \in Keys}

OptimizeBodies ==
  {Body(k[1], "js", "ps", "time", None, k[2][1], k[2][2], k[2][3]) :
     k \in Keys}

\* generate-test-cases needs no code; a client may send one all the same
TestBodies ==
  {Body(k[1], None, "ps", None, "c", k[2][1], k[2][2], k[2][3]) :
     k \in TestKeys}

\* replies of the model: two complete answers that differ, text that is no
\* JSON, a failed call and, to the request for test cases, an answer with
\* no content, which the service reads as {}
GoodReply(task, n) ==
  LET s == IF n = 1 THEN "one" ELSE "two"
  IN CASE task = "analyze" ->
            ReplyText("json", "json", JObj(
              [approachIdentified |-> JStr(s),
               optimizationTips |-> JArr(<<JStr("tip")>>),
               edgeCasesFeedback |-> JArr(<<JStr("edge")>>),
               alternativeApproaches |-> JArr(<<>>),
               detailedAnalysis |-> JStr(s)]))
       [] task = "complexity" ->
            ReplyText("json", "json", JObj(
              [timeComplexity |-> JObj([bestCase |-> JStr("O(1)"),
                                        averageCase |-> JStr("O(n)"),
                                        worstCase |-> JStr(s)]),
               spaceComplexity |-> JStr("O(n)"),
               criticalOperations |-> JArr(<<>>),
               comparisonToOptimal |-> JStr("optimal"),
               detailedAnalysis |-> JStr(s)]))
       [] task = "optimize" ->
            ReplyText("json", "json", JObj(
              [optimizedCode |-> JStr(s),
               improvements |-> JArr(<<>>),
               explanationText |-> JStr(s)]))
       [] task = "generateTests" ->
            ReplyText("none", "json", JObj(
              [testCases |-> JArr(<<JObj([input |-> JArr(<<JStr(s)>>),
                                          expectedOutput |-> JStr("out"),
                                          purpose |-> JStr("p"),
                                          difficulty |-> JStr("easy"),
                                          performanceTest |-> FALSE])>>),
               explanationText |-> JStr(s)]))

Prose == ReplyText("none", "prose", JNull)

Replies(task) ==
  {GoodReply(task, 1), GoodReply(task, 2), Prose, ReplyError}
    \cup (IF task = "generateTests" THEN {ReplyEmpty} ELSE {})

\* the replies the model may give to the call slot r is waiting for
RepliesTo(r) == IF req[r].pc = "model" THEN Replies(req[r].task) ELSE {}

Next ==
  \E r \in Slots :
    \/ \E cred \in Credentials, body \in CodeBodies :
         analyzeSolution(r, cred, body)
    \/ \E cred \in Credentials, body \in CodeBodies :
         complexityAnalysis(r, cred, body)
    \/ \E cred \in Credentials, body \in OptimizeBodies :
         optimizeSolution(r, cred, body)
    \/ \E cred \in Credentials, body \in TestBodies :
         generateTestCases(r, cred, body)
    \/ \E reply \in RepliesTo(r) : ModelReturn(r, reply)
    \/ \E ok \in BOOLEAN : Save(r, ok)

Spec == Init /\ [][Next]_vars

\* ------------------------------------------------------------------------
\* SpecInput: one request sent to the empty service, with every kind of
\* credential and every combination of present, empty and absent fields
\* ------------------------------------------------------------------------
InputCredentials == {Valid("U1")} \cup {Invalid(k) : k \in RejectedKinds}

InputCodeBodies ==
  {Body(c, l, None, None, None, p, i, q) :
     c \in {None, "", "A"}, l \in {None, "js"}, p \in {None, "P1"},
     i \in {None, "I1"}, q \in {None, "0", "7"}}

InputOptimizeBodies ==
  {Body(c, l, ps, f, None, p, i, q) :
     c \in {None, "", "A"}, l \in {None, "js"}, ps \in {None, "ps"},
     f \in {None, "time", "space", "speed"}, p \in {None, "P1"},
     i \in {None, "I1"}, q \in {None, "0", "7"}}

InputTestBodies ==
  {Body(None, None, ps, None, cs, p, i, q) :
     ps \in {None, "ps"}, cs \in {None, "c"}, p \in {None, "P1"},
     i \in {None, "I1"}, q \in {None, "0", "7"}}

\* the one request is the first
FirstCredentials == IF nreq = 0 THEN InputCredentials ELSE {}

NextInput ==
  \/ \E cred \in FirstCredentials, body \in InputCodeBodies :
       analyzeSolution(1, cred, body)
  \/ \E cred \in FirstCredentials, body \in InputCodeBodies :
       complexityAnalysis(1, cred, body)
  \/ \E cred \in FirstCredentials, body \in InputOptimizeBodies :
       optimizeSolution(1, cred, body)
  \/ \E cred \in FirstCredentials, body \in InputTestBodies :
       generateTestCases(1, cred, body)
  \/ \E reply \in RepliesTo(1) : ModelReturn(1, reply)
  \/ \E ok \in BOOLEAN : Save(1, ok)

SpecInput == Init /\ [][NextInput]_vars

\* ------------------------------------------------------------------------
\* SpecReply: one well-formed request of each task sent to the empty
\* service, the model answering with any text of a family built from the
\* fields the task's prompt asks for
\* ------------------------------------------------------------------------
\* how the text is wrapped: not at all, in ```json .. ```, in ``` .. ```,
\* or in a fence sanitizeJsonResponse does not strip (another language
\* tag, or text after the closing fence)
Fences == {"none", "json", "bare", "other"}

\* JSON documents that are no object
NonObjects ==
  {JNull, JStr("text"), JNum(7), JBool(TRUE), JArr(<<JStr("a")>>)}

TestCase(difficulty) ==
  JObj([input |-> JArr(<<JNum(1)>>), expectedOutput |-> JStr("out"),
        purpose |-> JStr("p"), difficulty |-> JStr(difficulty),
        performanceTest |-> FALSE])

\* a test case whose input is a string: its text has no ] in it
FlatTestCase ==
  JObj([input |-> JStr("in"), expectedOutput |-> JStr("out"),
        purpose |-> JStr("p"), difficulty |-> JStr("easy"),
        performanceTest |-> FALSE])

\* per task, the fields of the reply and the values a reply may give each:
\* of the declared type, empty, of another type, or a comprehension
FieldValues(task) ==
  CASE task = "analyze" ->
         [approachIdentified |-> {JStr("two pointers"), JStr("")},
          optimizationTips |-> {JArr(<<JStr("tip")>>), JStr("tip"), JCompr},
          edgeCasesFeedback |-> {JArr(<<JStr("edge")>>), JNull},
          alternativeApproaches |-> {JArr(<<>>)},
          detailedAnalysis |-> {JStr("text")}]
    [] task = "complexity" ->
         [timeComplexity |->
            {JObj([bestCase |-> JStr("O(1)"), averageCase |-> JStr("O(n)"),
                   worstCase |-> JStr("O(n)")]),
             JObj([bestCase |-> JStr("O(1)")]),
             JStr("O(n)")},
          spaceComplexity |-> {JStr("O(n)"), JStr("")},
          criticalOperations |-> {JArr(<<>>), JCompr},
          comparisonToOptimal |-> {JStr("optimal")},
          detailedAnalysis |-> {JStr("text")}]
    [] task = "optimize" ->
         [optimizedCode |-> {JStr("code"), JNum(0)},
          improvements |-> {JArr(<<>>), JStr("none"), JCompr},
          explanationText |-> {JStr("x"), JStr("")}]
    [] task = "generateTests" ->
         [testCases |-> {JArr(<<TestCase("easy")>>), JArr(<<>>),
                         JArr(<<FlatTestCase>>),
                         JArr(<<TestCase("extreme")>>), JStr("none"),
                         JObj([count |-> JNum(3)]), JCompr, JRange,
                         JComprNested},
          explanationText |-> {JStr("x"), JStr("")}]

\* the objects with some of the task's fields, each with one of its values
ReplyObjects(task) ==
  LET values == FieldValues(task)
      fields == DOMAIN values
      all == UNION {values[k] : k \in fields}
  IN {JObj([k \in present |-> choice[k]]) :
        present \in SUBSET fields,
        choice \in {c \in [fields -> all] : \A k \in fields : c[k] \in values[k]}}

InputReplies(task) ==
  {ReplyError, ReplyEmpty}
    \cup {ReplyText(f, "prose", JNull) : f \in Fences}
    \cup {ReplyText(f, "json", v) :
            f \in Fences, v \in NonObjects \cup ReplyObjects(task)}

InputRepliesTo(r) ==
  IF req[r].pc = "model" THEN InputReplies(req[r].task) ELSE {}

\* the one request is the first
FirstBodies(bodies) == IF nreq = 0 THEN bodies ELSE {}

NextReply ==
  \/ \E cred \in Credentials, body \in FirstBodies(CodeBodies) :
       analyzeSolution(1, cred, body)
  \/ \E cred \in Credentials, body \in FirstBodies(CodeBodies) :
       complexityAnalysis(1, cred, body)
  \/ \E cred \in Credentials, body \in FirstBodies(OptimizeBodies) :
       optimizeSolution(1, cred, body)
  \/ \E cred \in Credentials, body \in FirstBodies(TestBodies) :
       generateTestCases(1, cred, body)
  \/ \E reply \in InputRepliesTo(1) : ModelReturn(1, reply)
  \/ \E ok \in BOOLEAN : Save(1, ok)

SpecReply == Init /\ [][NextReply]_vars

\* ------------------------------------------------------------------------
\* SpecShared: two owners send requests one at a time, each for a problem,
\* for an interview question or with the ids of both, optimize requests
\* with either focus; the model answers every call
\* ------------------------------------------------------------------------
Owners == {"U1", "U2"}

BothScopes == <<"P1", "I1", "7">>

SharedScopes == {ProblemScope, InterviewScope, BothScopes}

SharedCredentials == {Valid(u) : u \in Owners}

SharedCodeBodies ==
  {Body("A", "js", None, None, None, sc[1], sc[2], sc[3]) :
     sc \in SharedScopes}

SharedOptimizeBodies ==
  {Body("A", "js", "ps", f, None, sc[1], sc[2], sc[3]) :
     f \in {"time", "space"}, sc \in SharedScopes}

SharedTestBodies ==
  {Body(None, None, "ps", None, "c", sc[1], sc[2], sc[3]) :
     sc \in SharedScopes}

SharedRepliesTo(r) ==
  IF req[r].pc = "model"
    THEN {GoodReply(req[r].task, 1), GoodReply(req[r].task, 2)}
    ELSE {}

NextShared ==
  \/ \E cred \in SharedCredentials, body \in SharedCodeBodies :
       analyzeSolution(1, cred, body)
  \/ \E cred \in SharedCredentials, body \in SharedCodeBodies :
       complexityAnalysis(1, cred, body)
  \/ \E cred \in SharedCredentials, body \in SharedOptimizeBodies :
       optimizeSolution(1, cred, body)
  \/ \E cred \in SharedCredentials, body \in SharedTestBodies :
       generateTestCases(1, cred, body)
  \/ \E reply \in SharedRepliesTo(1) : ModelReturn(1, reply)
  \/ \E ok \in BOOLEAN : Save(1, ok)

SpecShared == Init /\ [][NextShared]_vars


\* ------------------------------------------------------------------------
\* Properties
\* ------------------------------------------------------------------------
LogIndex == 1..Len(log)

\* the requests the history knows, answered or in flight
Seen ==
  {log[i] : i \in LogIndex} \cup {req[r] : r \in {x \in Slots : InFlight(x)}}
    \cup (IF rejected = Idle THEN {} ELSE {rejected})

Succeeded(e) == e.response.status = 200 /\ e.response.success
Fresh(e) == Succeeded(e) /\ ~e.response.data.fromCache
Hit(e) == Succeeded(e) /\ e.response.data.fromCache

\* the data of two responses agree apart from fromCache
SameData(a, b) ==
  /\ a.response.data.text = b.response.data.text
  /\ a.response.data.result = b.response.data.result

ScopeOf(e) == <<e.body.problemId, e.body.interviewId, e.body.questionId>>

\* b was issued next after a: nothing else was in flight while either of
\* them was handled, and b is the next request answered
Next2(i) == i + 1 \in LogIndex /\ log[i].alone /\ log[i + 1].alone

\* the result slot of a fresh response holds something a later lookup
\* counts as cached
NonEmptyResult(e) == e.task # "generateTests" \/ Len(e.result.result.v) > 0

\* no request answered before log[i] saved another document of its owner
\* and scope: the one log[i] saved is the only one there
OnlyInScope(i) ==
  \A m \in 1..(i - 1) :
    (log[m].user = log[i].user /\ ScopeOf(log[m]) = ScopeOf(log[i]))
      => log[m].wrote \in {0, log[i].wrote}

\* the same, for the documents a lookup with log[i]'s code can return
OnlyWithKey(i) ==
  \A m \in 1..(i - 1) :
    (log[m].user = log[i].user /\ ScopeOf(log[m]) = ScopeOf(log[i])
       /\ \/ "generateTests" \in {log[m].task, log[i].task}
          \/ log[m].body.code = log[i].body.code)
      => log[m].wrote \in {0, log[i].wrote}

C2_FailedCallWritesNothing ==
  /\ \A e \in Seen : e.upstream = "unavailable" => e.wrote = 0
  /\ \A i \in LogIndex :
       (Next2(i) /\ log[i].upstream = "unavailable"
          /\ log[i + 1].task = log[i].task /\ log[i + 1].user = log[i].user
          /\ log[i + 1].body = log[i].body /\ Succeeded(log[i + 1]))
         => ~log[i + 1].response.data.fromCache

\* the key of a document
KeyOf(doc) ==
  <<doc.userId, doc.interviewId, doc.questionId, doc.problemId, doc.code>>

\* C3: no two stored documents have the same (ownerId, scope, code)
C3_OneRecordPerKey ==
  \A i, j \in 1..Len(store) : i # j => KeyOf(store[i]) # KeyOf(store[j])

\* C4: from the empty store, a code-keyed task run with code A, then B,
\* then A for one owner and scope, the first two succeeding, misses,
\* misses and hits, and the hit returns what the first request returned
C4_DistinctCodesAreDistinctEntries ==
  (Len(log) >= 3 /\ log[1].alone /\ log[2].alone /\ log[3].alone
     /\ log[1].task # "generateTests"
     /\ log[2].task = log[1].task /\ log[3].task = log[1].task
     /\ log[2].user = log[1].user /\ log[3].user = log[1].user
     /\ ScopeOf(log[2]) = ScopeOf(log[1]) /\ ScopeOf(log[3]) = ScopeOf(log[1])
     /\ log[2].body.code # log[1].body.code
     /\ log[3].body.code = log[1].body.code
     /\ Succeeded(log[1]) /\ Succeeded(log[2]))
    => /\ Fresh(log[1]) /\ Fresh(log[2])
       /\ Hit(log[3]) /\ SameData(log[3], log[1])

C4_Witness ==
  /\ Len(log) >= 3 /\ log[1].alone /\ log[2].alone /\ log[3].alone
  /\ log[1].task = "optimize" /\ log[2].task = "optimize"
  /\ log[3].task = "optimize"
  /\ log[1].body.code = "A" /\ log[2].body.code = "B"
  /\ log[3].body.code = "A"
  /\ log[1].upstream = "ok" /\ log[2].upstream = "ok"
  /\ log[1].result # log[2].result
  /\ Hit(log[3])

C6_UnauthenticatedIsRejected ==
  \A e \in Seen :
    e.cred # "valid"
      => /\ e.pc = "done"
         /\ e.response.status = 401 /\ ~e.response.success
         /\ e.lookups = 0 /\ e.calls = 0 /\ e.wrote = 0

C6_Witness ==
  /\ rejected # Idle
  /\ rejected.cred = "lookup_error"
  /\ rejected.task = "optimize"
  /\ rejected.body.code = None
  /\ rejected.response.status = 401

\* the request lacks a field its task requires
Lacks(task, body) ==
  CASE task \in {"analyze", "complexity"} ->
         body.code = None \/ body.language = None
    [] task = "optimize" ->
         body.code = None \/ body.language = None
           \/ body.problemStatement = None
    [] task = "generateTests" ->
         body.problemStatement = None \/ body.constraints = None

\* C7: a request that reaches its handler and lacks a required field, or
\* an optimize request whose optimizationFocus is neither time nor space,
\* is answered 400 and does no lookup, no model call and no write
C7_InvalidInputIsRejected ==
  \A e \in Seen :
    (e.cred = "valid"
       /\ \/ Lacks(e.task, e.body)
          \/ e.task = "optimize"
               /\ e.body.optimizationFocus \notin {"time", "space"})
      => /\ e.pc = "done"
         /\ e.response.status = 400 /\ ~e.response.success
         /\ e.lookups = 0 /\ e.calls = 0 /\ e.wrote = 0

C7_Witness ==
  /\ rejected # Idle
  /\ rejected.cred = "valid"
  /\ rejected.task = "optimize"
  /\ ~Lacks("optimize", rejected.body)
  /\ rejected.body.optimizationFocus = "speed"
  /\ rejected.body.problemId = "P1"
  /\ rejected.response.status = 400

\* the result a service method returns from its catch block
FailureOf(task) ==
  CASE task = "analyze" -> AnalyzeFailure
    [] task = "complexity" -> ComplexityFailure
    [] task = "optimize" -> OptimizeFailure
    [] task = "generateTests" -> TestCasesFailure

\* C8: a request whose model call failed is answered 200 with
\* success=false, fromCache=false and the task's failure shape
C8_ModelFailureIsSoftFailure ==
  \A i \in LogIndex :
    log[i].upstream = "unavailable"
      => /\ log[i].response.status = 200
         /\ ~log[i].response.success
         /\ log[i].response.data # NoData
         /\ ~log[i].response.data.fromCache
         /\ log[i].response.data.result = FailureOf(log[i].task).result
         /\ log[i].response.data.text = FailureOf(log[i].task).analysisText

\* C9: a request whose model reply could not be parsed is handled like
\* one whose model call failed: 200, success=false, error=true, the
\* task's failure shape, and no document saved
C9_MalformedReplyIsSoftFailure ==
  \A i \in LogIndex :
    log[i].upstream = "malformed"
      => /\ log[i].response.status = 200
         /\ ~log[i].response.success
         /\ log[i].result.error
         /\ log[i].response.data # NoData
         /\ log[i].response.data.result = FailureOf(log[i].task).result
         /\ log[i].wrote = 0

\* C10: when two overlapping requests with one fingerprint both missed,
\* called the model and saved, a later hit for that fingerprint, with no
\* save for the owner and scope in between, serves what the second saved
C10_LastWriterWins ==
  \A i, j, k \in LogIndex :
    (i < j /\ j < k
       /\ ~log[i].alone /\ ~log[j].alone
       /\ log[i].task = log[j].task /\ log[i].user = log[j].user
       /\ log[i].body = log[j].body
       /\ log[i].calls = 1 /\ log[j].calls = 1
       /\ Fresh(log[i]) /\ Fresh(log[j])
       /\ log[k].task = log[j].task /\ log[k].user = log[j].user
       /\ log[k].body = log[j].body /\ Hit(log[k])
       /\ \A m \in LogIndex :
            (j < m /\ m < k /\ log[m].user = log[j].user
               /\ ScopeOf(log[m]) = ScopeOf(log[j])) => log[m].wrote = 0)
      => SameData(log[k], log[j])

\* C11: a request whose model call and normalization succeeded and whose
\* save was rejected is answered 500 with success=false, and no request
\* is answered success=true with a fresh result that is not in the store
C11_SaveFailureIsServerError ==
  \A i \in LogIndex :
    /\ (log[i].upstream = "ok" /\ log[i].wrote = 0)
         => log[i].response.status = 500 /\ ~log[i].response.success
    /\ Fresh(log[i])
         => /\ log[i].wrote \in 1..Len(store)
            /\ log[i].existing # 0 => log[i].wrote = log[i].existing

C11_Witness ==
  \E i \in LogIndex :
    /\ log[i].upstream = "ok" /\ log[i].calls = 1 /\ log[i].wrote = 0
    /\ log[i].response.status = 500
    /\ Len(store) = 0

\* the requests that got a result from the service
Normalized == {e \in Seen : e.calls = 1}

IsString(j) == j.t = "string"
IsArray(j) == j.t = "array"
IsStringArray(j) == IsArray(j) /\ \A n \in DOMAIN j.v : IsString(j.v[n])
IsObjectArray(j) == IsArray(j) /\ \A n \in DOMAIN j.v : j.v[n].t = "object"

IsTimeComplexity(j) ==
  /\ j.t = "object"
  /\ \A k \in {"bestCase", "averageCase", "worstCase"} :
       k \in DOMAIN j.v /\ IsString(j.v[k])

IsTestCase(j) ==
  /\ j.t = "object"
  /\ "difficulty" \in DOMAIN j.v
  /\ j.v.difficulty \in {JStr("easy"), JStr("medium"), JStr("hard"),
                         JStr("edge")}
  /\ "performanceTest" \in DOMAIN j.v
  /\ j.v.performanceTest \in BOOLEAN

\* the strict shape of a task's result
Conforms(task, result) ==
  /\ IsString(result.analysisText)
  /\ CASE task = "analyze" ->
            /\ IsString(result.result.approachIdentified)
            /\ IsStringArray(result.result.optimizationTips)
            /\ IsStringArray(result.result.edgeCasesFeedback)
            /\ IsObjectArray(result.result.alternativeApproaches)
       [] task = "complexity" ->
            /\ IsTimeComplexity(result.result.timeComplexity)
            /\ IsString(result.result.spaceComplexity)
            /\ IsObjectArray(result.result.criticalOperations)
            /\ IsString(result.result.comparisonToOptimal)
       [] task = "optimize" ->
            /\ IsString(result.result.optimizedCode)
            /\ IsObjectArray(result.result.improvements)
       [] task = "generateTests" ->
            /\ IsArray(result.result)
            /\ \A n \in DOMAIN result.result.v : IsTestCase(result.result.v[n])

\* C12: whatever text the model sent, the result the service returned has
\* the strict shape of the task
C12_NormalizationConforms ==
  \A e \in Normalized : Conforms(e.task, e.result)

\* the text of the reply, once stripped of its fence, parses to an object
ParsesToObject(e) ==
  /\ e.reply.kind = "text"
  /\ e.reply.value.t = "object"
  /\ ~ParseThrows(sanitizeJsonResponse(e.reply))

\* the fields of a task's result slot, and the reply field its text is
\* taken from
SlotFields(task) ==
  CASE task = "analyze" ->
         {"approachIdentified", "optimizationTips", "edgeCasesFeedback",
          "alternativeApproaches"}
    [] task = "complexity" ->
         {"timeComplexity", "spaceComplexity", "criticalOperations",
          "comparisonToOptimal"}
    [] task = "optimize" -> {"optimizedCode", "improvements"}
    [] task = "generateTests" -> {"testCases"}

TextField(task) ==
  IF task \in {"analyze", "complexity"} THEN "detailedAnalysis"
                                        ELSE "explanationText"

\* what the service makes of the reply {}: every field at its default
DefaultsOf(task) == ServiceResult(task, ReplyEmpty)

\* field f of the result of task, generateTests having the array itself
\* as its result
ResultField(task, result, f) ==
  IF task = "generateTests" THEN result.result ELSE result.result[f]

\* a timeComplexity object with its missing parts set to "Unknown"
FilledIn(j) ==
  IF j.t # "object" THEN j
  ELSE JObj([k \in {"bestCase", "averageCase", "worstCase"} |->
               IF k \in DOMAIN j.v THEN j.v[k] ELSE JStr("Unknown")])

\* the object has no field f, or has it null, empty or zero
Lacking(given, f) == f \notin DOMAIN given \/ ~Truthy(given[f])

\* C13: when the stripped text parses to an object, an expected field the
\* object lacks is at its default in the result, also a part of
\* timeComplexity the object lacks, and a field the object has is in the
\* result as given (testCases: when it is an array); the fenced text
\* {"spaceComplexity":"O(n)"} gives the complexity result of the example
C13_MissingFieldsGetDefaults ==
  \A e \in Normalized :
    ParsesToObject(e) =>
      LET given == e.reply.value.v
          text == TextField(e.task)
      IN /\ \A f \in SlotFields(e.task) :
              ResultField(e.task, e.result, f) =
                IF Lacking(given, f)
                  THEN ResultField(e.task, DefaultsOf(e.task), f)
                ELSE IF f = "timeComplexity" THEN FilledIn(given[f])
                ELSE IF f = "testCases" /\ given[f].t # "array"
                  THEN JArr(<<>>)
                ELSE given[f]
         /\ e.result.analysisText =
              IF Lacking(given, text) THEN DefaultsOf(e.task).analysisText
                                      ELSE given[text]
         /\ (e.task = "complexity"
               /\ e.reply = ReplyText("json", "json",
                              JObj([spaceComplexity |-> JStr("O(n)")])))
              => e.result.result =
                   [timeComplexity |-> JObj([bestCase |-> JStr("Unknown"),
                                             averageCase |-> JStr("Unknown"),
                                             worstCase |-> JStr("Unknown")]),
                    spaceComplexity |-> JStr("O(n)"),
                    criticalOperations |-> JArr(<<>>),
                    comparisonToOptimal |-> JStr("Unknown")]

\* the reply to a generateTests request is JSON but for the expression e
\* given as testCases
TestCasesGivenAs(e, exprs) ==
  /\ e.task = "generateTests"
  /\ e.reply.kind = "text" /\ e.reply.syntax = "json"
  /\ e.reply.fence \in {"none", "json", "bare"}
  /\ e.reply.value.t = "object"
  /\ "testCases" \in DOMAIN e.reply.value.v
  /\ e.reply.value.v.testCases \in exprs

\* the result of a repaired reply: no test cases, the explanation given,
\* and no sign of a failed parse
Repaired(e) ==
  /\ e.result.result = JArr(<<>>)
  /\ e.result.analysisText =
       IF Lacking(e.reply.value.v, "explanationText")
         THEN JStr("No test case explanation available")
         ELSE e.reply.value.v.explanationText
  /\ ~e.result.error
  /\ e.upstream = "ok"

OfFingerprint(doc, e) ==
  /\ doc.userId = e.user
  /\ IF e.body.interviewId # None /\ e.body.questionId # None
       THEN /\ doc.interviewId = e.body.interviewId
            /\ doc.questionId = e.body.questionId
       ELSE doc.problemId = e.body.problemId
  /\ e.task # "generateTests" => doc.code = e.body.code

\* the result slot of task on doc is neither null nor empty
Filled(doc, task) ==
  /\ doc[SlotOf(task)] # Unset
  /\ task = "generateTests" => Len(doc.testCases.v) > 0

\* a record of e's fingerprint with e's slot filled is in the store
Cached(e) ==
  \E d \in 1..Len(store) : OfFingerprint(store[d], e) /\ Filled(store[d], e.task)

\* C15: a request answered from the cache has a record of its fingerprint
\* with its slot filled, and a request whose lookup missed has none (read
\* while the store is as the lookup saw it: the request is alone and
\* waits for the model)
C15_HitIffSlotFilled ==
  /\ \A i \in LogIndex : Hit(log[i]) => Cached(log[i])
  /\ \A r \in Slots :
       (req[r].pc = "model" /\ req[r].alone) => ~Cached(req[r])

ResultSlots ==
  {"algorithmAnalysis", "complexityAnalysis", "optimizationSuggestions",
   "testCases"}

\* the paths a request of the task may write
WrittenBy(task) == {SlotOf(task), "analysisText"}

\* C16: a step that changes the store is the save of one request; it
\* changes one record, and there nothing but the task's own slot and the
\* explanation text (the other slots, the owner, the scope, the code and
\* the language stay), or it adds one record whose other slots are unset
C16_WritesOnlyOwnSlot ==
  [][store' # store =>
       \E r \in Slots :
         /\ req[r].pc = "save" /\ req'[r] = Idle
         /\ Len(store') = Len(store) + (IF req[r].existing = 0 THEN 1 ELSE 0)
         /\ \A d \in 1..Len(store) :
              /\ d # req[r].existing => store'[d] = store[d]
              /\ \A f \in DOMAIN store[d] \ WrittenBy(req[r].task) :
                   store'[d][f] = store[d][f]
         /\ req[r].existing = 0 =>
              \A f \in ResultSlots \ {SlotOf(req[r].task)} :
                store'[Len(store')][f] = Unset]_vars

\* a record that a request of one task created has been updated by a
\* request of another task, and still holds the slot of the first
C16_Witness ==
  \E i, j \in LogIndex :
    /\ i < j /\ Fresh(log[i]) /\ Fresh(log[j])
    /\ log[i].existing = 0 /\ log[j].existing = log[i].wrote
    /\ log[j].wrote = log[i].wrote
    /\ log[i].task # log[j].task
    /\ store[log[j].wrote][SlotOf(log[i].task)] = log[i].result.result
    /\ store[log[j].wrote][SlotOf(log[j].task)] = log[j].result.result

\* C17: a request answered from the cache has made no model call, and no
\* request, whatever its outcome, has made more than one
C17_AtMostOneModelCall ==
  \A e \in Seen :
    /\ e.calls \in {0, 1}
    /\ e.pc = "model" => e.calls = 0
    /\ e.pc = "save" => e.calls = 1
    /\ e.pc = "done" => /\ Hit(e) => e.calls = 0
                        /\ Fresh(e) => e.calls = 1

\* a request was answered after its one model call, and a later one of the
\* same task from the cache after none
C17_Witness ==
  \E i, j \in LogIndex :
    /\ i < j /\ log[i].task = log[j].task
    /\ Fresh(log[i]) /\ log[i].calls = 1
    /\ Hit(log[j]) /\ log[j].calls = 0 /\ log[j].existing = log[i].wrote

\* the record is of an interview question or of a problem, and not both
OneScopeKind(doc) ==
  \/ doc.interviewId # None /\ doc.questionId # None /\ doc.problemId = None
  \/ doc.problemId # None /\ doc.interviewId = None /\ doc.questionId = None

\* C18: every record of the store has exactly one scope kind populated,
\* whatever scope fields the requests carried
C18_ExactlyOneScopeKind ==
  \A d \in 1..Len(store) : OneScopeKind(store[d])

\* the body carries neither an interview question nor a problem
NoScopeForm(body) ==
  /\ Missing(body.interviewId) \/ MissingNum(body.questionId)
  /\ Missing(body.problemId)

\* C19: an authenticated request of any task whose body carries neither
\* scope form is answered 400, having called no model and written nothing
C19_NoScopeIsRejected ==
  \A e \in Seen :
    (e.cred = "valid" /\ NoScopeForm(e.body))
      => /\ e.pc = "done"
         /\ e.response.status = 400 /\ ~e.response.success
         /\ e.calls = 0 /\ e.wrote = 0

\* the answered requests that wrote record d after a model call that went
\* well; the log is in the order of the saves
SuccessfulWrites(d) ==
  {i \in LogIndex : log[i].wrote = d /\ log[i].upstream = "ok"}

Latest(S) == CHOOSE i \in S : \A j \in S : j <= i

\* C20: the analysisText of a record is the explanation text of the most
\* recent successful write to it; a request whose model call failed and a
\* request answered from the cache leave it as it was
C20_AnalysisTextIsLastSuccessfulWrite ==
  \A d \in 1..Len(store) :
    SuccessfulWrites(d) # {}
      => store[d].analysisText
           = log[Latest(SuccessfulWrites(d))].result.analysisText

\* what a request has done so far is a prefix of the chain auth check,
\* lookup with a miss, model call, write, success response
InOrder(e) ==
  /\ e.lookups = 1 => e.cred = "valid"
  /\ e.calls = 1 => e.lookups = 1 /\ e.pc \in {"save", "done"}
  /\ e.wrote # 0 => e.calls = 1 /\ e.pc = "done"
  /\ e.pc = "done" =>
       /\ Fresh(e) => e.wrote # 0
       /\ Hit(e) => e.lookups = 1 /\ e.calls = 0 /\ e.wrote = 0

\* C21: within a request no lookup is made before the auth check has
\* passed, no model call before the lookup has returned a miss, no write
\* before the model call has returned, and no success response before the
\* write is done
C21_StepsInOrder ==
  \A e \in Seen : InOrder(e)

\* the reply is text that JSON.parse accepts as it is once the fence is
\* stripped
ParsesStrictly(e) ==
  /\ e.reply.kind = "text"
  /\ ~ParseThrows(sanitizeJsonResponse(e.reply))

\* C22: when the reply parses to a value that is no object, the service
\* returns the task's failure shape with the error flag set
C22_NonObjectIsFailure ==
  \A e \in Normalized :
    (ParsesStrictly(e) /\ e.reply.value.t # "object")
      => /\ e.result.error
         /\ e.result.result = FailureOf(e.task).result

\* C23: a reply that parses strictly to an object is normalized from that
\* parse: every array it gives for a field of the result is in the result
\* as given
C23_StrictParseIsKept ==
  \A e \in Normalized :
    ParsesToObject(e) =>
      \A f \in SlotFields(e.task) \cap DOMAIN e.reply.value.v :
        e.reply.value.v[f].t = "array"
          => ResultField(e.task, e.result, f) = e.reply.value.v[f]

\* the fields of the replies that are declared arrays
ArrayFields ==
  {"optimizationTips", "edgeCasesFeedback", "alternativeApproaches",
   "criticalOperations", "improvements", "testCases"}

\* C24: when the reply parses to an object that gives something other
\* than an array for a field declared an array, the result has the empty
\* array there
C24_NonArrayBecomesEmpty ==
  \A e \in Normalized :
    ParsesToObject(e) =>
      \A f \in SlotFields(e.task) \cap ArrayFields \cap DOMAIN e.reply.value.v :
        e.reply.value.v[f].t # "array"
          => ResultField(e.task, e.result, f) = JArr(<<>>)

KeyFields == {"userId", "interviewId", "questionId", "problemId", "code"}

\* C25: no step removes a record or changes the owner, the scope or the
\* code of one: every record that exists is there after the step, with
\* these fields as they were
C25_RecordsKeepTheirKey ==
  [][/\ Len(store') >= Len(store)
     /\ \A d \in 1..Len(store) :
          \A f \in KeyFields : store'[d][f] = store[d][f]]_vars

\* a request for test cases has updated a record that an analysis of some
\* code created, and the record is still of that owner, scope and code
C25_Witness ==
  \E i, j \in LogIndex :
    /\ i < j
    /\ log[i].task # "generateTests" /\ log[i].existing = 0
    /\ log[i].wrote # 0
    /\ log[j].task = "generateTests" /\ log[j].existing = log[i].wrote
    /\ log[j].wrote = log[i].wrote
    /\ store[log[i].wrote].userId = log[i].user
    /\ store[log[i].wrote].code = log[i].body.code
    /\ store[log[i].wrote].problemId = log[i].body.problemId
    /\ Len(store) >= 2

\* the requests in flight that are about to save
Saving == {r \in Slots : req[r].pc = "save"}

\* C26: a lookup hands a request only a record of its own owner, so that
\* it is answered from and updates no other; and a step changes or adds a
\* record only of the owner whose request saves, so that what an owner's
\* requests find does not depend on the requests of the others
C26_OwnerIsolation ==
  /\ [](\A e \in Seen :
          /\ e.existing # 0 => store[e.existing].userId = e.user
          /\ e.wrote # 0 => store[e.wrote].userId = e.user)
  /\ [][\A d \in 1..Len(store') :
          (d > Len(store) \/ store'[d] # store[d])
            => \E r \in Saving :
                 /\ req'[r] = Idle
                 /\ store'[d].userId = req[r].user
                 /\ d <= Len(store) => store[d].userId = req[r].user]_vars

\* an owner is answered from the cache from a record of its own, found
\* behind a record another owner has for the same scope and code
C26_Witness ==
  \E i, j, k \in LogIndex :
    /\ i < j /\ j < k
    /\ log[i].user # log[j].user
    /\ log[i].task = log[j].task /\ log[i].body = log[j].body
    /\ Fresh(log[i]) /\ Fresh(log[j])
    /\ log[i].wrote # log[j].wrote
    /\ log[k].user = log[j].user /\ log[k].task = log[j].task
    /\ log[k].body = log[j].body
    /\ Hit(log[k]) /\ log[k].existing = log[j].wrote
    /\ store[log[k].existing].userId = log[k].user

\* C27: once a request for test cases of an owner and scope got test
\* cases from the model and saved them, every later request for test
\* cases of that owner and scope is answered from the cache with them,
\* whatever records of analyses share the owner and scope
C27_TestCasesStayCached ==
  \A i, k \in LogIndex :
    (i < k
       /\ log[i].task = "generateTests" /\ log[k].task = "generateTests"
       /\ log[i].user = log[k].user /\ ScopeOf(log[i]) = ScopeOf(log[k])
       /\ Fresh(log[i]) /\ log[i].upstream = "ok" /\ NonEmptyResult(log[i]))
      => /\ Hit(log[k])
         /\ log[k].response.data.result = log[i].response.data.result

\* C28: an optimize request answered from the cache gets suggestions that
\* were produced for its own optimizationFocus: the optimize request that
\* wrote the record it is answered from had the same focus
C28_CachedSuggestionsMatchFocus ==
  \A i, k \in LogIndex :
    (i < k
       /\ log[k].task = "optimize" /\ Hit(log[k])
       /\ log[i].task = "optimize" /\ log[i].wrote = log[k].existing)
      => log[i].body.optimizationFocus = log[k].body.optimizationFocus

\* the scope a request is handled under: the interview question when the
\* body has both its ids, else the problem
ResolvedScope(body) ==
  IF ~Missing(body.interviewId) /\ ~MissingNum(body.questionId)
    THEN <<"interview", body.interviewId, body.questionId>>
    ELSE <<"problem", body.problemId>>

\* the request of log[i] created the record the request of log[k] found
CreatedFor(i, k) ==
  /\ i < k
  /\ log[i].existing = 0 /\ log[i].wrote # 0
  /\ log[i].wrote = log[k].existing

\* C29: a request answered from the cache is answered from a record that
\* a request of the same scope created
C29_HitIsOfSameScope ==
  \A i, k \in LogIndex :
    (Hit(log[k]) /\ CreatedFor(i, k))
      => ResolvedScope(log[i].body) = ResolvedScope(log[k].body)

\* the requests answered before log[k] that saved the record log[k] found
WritesBefore(k) ==
  {i \in 1..(k - 1) : log[i].wrote # 0 /\ log[i].wrote = log[k].existing}

\* those among them of log[k]'s own task: they filled its result slot
FillsBefore(k) == {i \in WritesBefore(k) : log[i].task = log[k].task}

\* C30 as claimed: the explanation text of an answer from the cache is
\* the text returned by the request that filled the task's slot on the
\* record
C30_CachedTextIsOfTheFillingRequest ==
  \A k \in LogIndex :
    Hit(log[k]) =>
      /\ FillsBefore(k) # {}
      /\ log[k].response.data.text
           = log[Latest(FillsBefore(k))].result.analysisText

\* C30 as amended: the result of an answer from the cache is the one
\* returned by the request that filled the task's slot, and its
\* explanation text is the text returned by the request, of whatever
\* task, that saved the record last
C30_CachedTextIsOfTheLastWrite ==
  \A k \in LogIndex :
    Hit(log[k]) =>
      /\ FillsBefore(k) # {}
      /\ log[k].response.data.result
           = log[Latest(FillsBefore(k))].result.result
      /\ log[k].response.data.text
           = log[Latest(WritesBefore(k))].result.analysisText

\* an analysis answered from the cache with the text of a later task on
\* the same record
C30_Witness ==
  \E k \in LogIndex :
    /\ Hit(log[k]) /\ FillsBefore(k) # {}
    /\ Latest(WritesBefore(k)) > Latest(FillsBefore(k))
    /\ log[k].response.data.text
         # log[Latest(FillsBefore(k))].result.analysisText
    /\ log[k].response.data.text
         = log[Latest(WritesBefore(k))].result.analysisText

====
